---- MODULE Spec2Model ----
(***************************************************************************)
(* Model of directory_traversal_log_generator.py: the script prints its    *)
(* instructions, asks for a root path, walks it with os.walk, writes       *)
(* directory_traversal_log.txt, mails it and moves it to the trash.        *)
(*                                                                         *)
(* Strings are sequences of tokens (a token is a TLA+ string: a separator, *)
(* a drive, a name, a digit, a literal of the code).  The log file is one   *)
(* string of tokens, "\n" tokens being the newlines the code writes.       *)
(***************************************************************************)
EXTENDS Integers, Sequences, FiniteSets, TLC

VARIABLES
    platform,   \* "nt" or "posix": the path convention of the host
    cwd,        \* os.getcwd(), a string
    fsTree,     \* the directory tree found under the root path
    clock,      \* what datetime.now() returns when called now
    pc,         \* position of the script
    tree,       \* the os.walk generator: its stack of pending work
    watch,      \* the timestamp captured by setup()
    f,          \* the text written to the log file by this run
    fOpen,      \* the log file object is open for writing
    files,      \* regular files existing in the working area, as resolved paths
    scanned,    \* directories on which os.scandir has been called
    out,        \* lines printed to stdout
    mail,       \* the send attempt: none yet, or its recipient, attachment, outcome
    trashArg,   \* the resolved path handed to send2trash, or NoPath
    yields      \* history: the entries the generator has yielded so far

vars == <<platform, cwd, fsTree, clock, pc, tree, watch, f, fOpen, files,
          scanned, out, mail, trashArg, yields>>

----------------------------------------------------------------------------
(* Bounds of the model *)

\* largest number of entries (root included) of a walked tree
MaxNodes == 4

\* largest number of entries of the trees used when the whole flow is explored
MaxFlowNodes == 2

----------------------------------------------------------------------------
(* Paths *)

LogName == "directory_traversal_log.txt"

NL == <<"\n">>

\* the separators the platform's path resolution splits on
Separators(p) == IF p = "nt" THEN {"\\", "/"} ELSE {"/"}

\* os.sep
Sep(p) == IF p = "nt" THEN "\\" ELSE "/"

RECURSIVE SplitPath(_, _, _)
\* the components of string s on platform p; cur is the component being read.
\* Empty components (a doubled or leading separator) are dropped.
SplitPath(p, s, cur) ==
    IF s = <<>>
    THEN IF cur = <<>> THEN <<>> ELSE <<cur>>
    ELSE IF Head(s) \in Separators(p)
         THEN (IF cur = <<>> THEN <<>> ELSE <<cur>>) \o SplitPath(p, Tail(s), <<>>)
         ELSE SplitPath(p, Tail(s), Append(cur, Head(s)))

\* the file an absolute path string names on platform p
Resolve(p, s) == SplitPath(p, s, <<>>)

\* the file a name relative to the working directory names: open('name')
ResolveRelative(p, wd, name) == Resolve(p, wd \o <<Sep(p), name>>)

\* os.getcwd() + r"\directory_traversal_log.txt"
ArtifactPath(wd) == wd \o <<"\\", LogName>>

NoPath == <<<<"?">>>>

----------------------------------------------------------------------------
(* The timestamp and its renderings: str(date), str(time), strftime('%A') *)

DigitChars == <<"0", "1", "2", "3", "4", "5", "6", "7", "8", "9">>

RECURSIVE Pad(_, _)
\* "%0wd" % n for 0 <= n < 10^w: the w decimal digits of n, zero padded
Pad(n, w) == IF w = 0 THEN <<>> ELSE Append(Pad(n \div 10, w - 1), DigitChars[(n % 10) + 1])

\* str(watch.date()): date.isoformat, "%04d-%02d-%02d"
DateStr(t) == Pad(t.year, 4) \o <<"-">> \o Pad(t.month, 2) \o <<"-">> \o Pad(t.day, 2)

\* a rendering of the fraction in milliseconds
TimeStrMillis(t) ==
    Pad(t.hour, 2) \o <<":">> \o Pad(t.minute, 2) \o <<":">> \o Pad(t.second, 2)
        \o (IF t.microsecond # 0 THEN <<".">> \o Pad(t.microsecond \div 1000, 3) ELSE <<>>)

\* str(watch.time()): time.isoformat, "%02d:%02d:%02d" and, only when the
\* microsecond is not 0, ".%06d"
TimeStr(t) ==
    Pad(t.hour, 2) \o <<":">> \o Pad(t.minute, 2) \o <<":">> \o Pad(t.second, 2)
        \o (IF t.microsecond # 0 THEN <<".">> \o Pad(t.microsecond, 6) ELSE <<>>)

IsLeap(y) == y % 4 = 0 /\ (y % 100 # 0 \/ y % 400 = 0)

DaysInMonth(y, m) ==
    IF m = 2 THEN (IF IsLeap(y) THEN 29 ELSE 28)
    ELSE IF m \in {4, 6, 9, 11} THEN 30 ELSE 31

RECURSIVE DaysBeforeMonth(_, _)
DaysBeforeMonth(y, m) == IF m = 1 THEN 0 ELSE DaysBeforeMonth(y, m - 1) + DaysInMonth(y, m - 1)

\* date.toordinal(): 1 for 0001-01-01
ToOrdinal(t) ==
    LET y == t.year - 1
    IN  y * 365 + (y \div 4) - (y \div 100) + (y \div 400)
          + DaysBeforeMonth(t.year, t.month) + t.day

DayNames == <<"Monday", "Tuesday", "Wednesday", "Thursday", "Friday", "Saturday", "Sunday">>

\* date.weekday(): 0 for Monday
Weekday(t) == (ToOrdinal(t) + 6) % 7

\* watch.strftime('%A'): the full weekday name
DayStr(t) == <<DayNames[Weekday(t) + 1]>>

\* the clock after one more step of the script has run
Tick(t) ==
    IF t.microsecond < 999999 THEN [t EXCEPT !.microsecond = @ + 1]
    ELSE IF t.second < 59 THEN [t EXCEPT !.microsecond = 0, !.second = @ + 1]
    ELSE IF t.minute < 59 THEN [t EXCEPT !.microsecond = 0, !.second = 0, !.minute = @ + 1]
    ELSE IF t.hour < 23
         THEN [t EXCEPT !.microsecond = 0, !.second = 0, !.minute = 0, !.hour = @ + 1]
    ELSE LET z == [t EXCEPT !.microsecond = 0, !.second = 0, !.minute = 0, !.hour = 0]
         IN  IF t.day < DaysInMonth(t.year, t.month) THEN [z EXCEPT !.day = @ + 1]
             ELSE IF t.month < 12 THEN [z EXCEPT !.day = 1, !.month = @ + 1]
             ELSE [z EXCEPT !.day = 1, !.month = 1, !.year = @ + 1]

NoWatch == [year |-> 0, month |-> 0, day |-> 0, hour |-> 0, minute |-> 0,
            second |-> 0, microsecond |-> 0]

----------------------------------------------------------------------------
(* The directory tree under the root path, as os.scandir shows it *)

\* entry 1 is what the root path names; an entry c > 1 lies in directory parent[c].
\* kind: "dir" a real directory, "link" a symbolic link to a directory,
\*       "file" anything else.
\* listable: os.scandir of the directory succeeds (it exists, is a directory and
\*       may be read); FALSE for entry 1 is an inaccessible root path.
\* rev: the order in which the OS lists the directory (entries are listed by
\*       rising number, or by falling number when rev).
Kinds == {"dir", "link", "file"}

TreesOfSize(n) ==
    LET KindFns == { k \in [1..n -> Kinds] : k[1] = "dir" }
        ParentFns(k) ==
            { pa \in [1..n -> 0..(n - 1)] :
                /\ pa[1] = 0
                /\ \A c \in 2..n : pa[c] \in 1..(c - 1) /\ k[pa[c]] = "dir" }
        ListFns(k) == { l \in [1..n -> BOOLEAN] : \A c \in 1..n : k[c] # "dir" => l[c] }
        RevFns(k, pa) ==
            { r \in [1..n -> BOOLEAN] :
                \A d \in 1..n :
                    r[d] => k[d] = "dir" /\ Cardinality({ c \in 2..n : pa[c] = d }) >= 2 }
    IN  UNION { UNION { { [n |-> n, parent |-> pa, kind |-> k, listable |-> l, rev |-> r] :
                            l \in ListFns(k), r \in RevFns(k, pa) } :
                        pa \in ParentFns(k) } :
                k \in KindFns }

Trees(maxn) == UNION { TreesOfSize(n) : n \in 1..maxn }

EntryName(c) ==
    CASE c = 1 -> "root" [] c = 2 -> "A" [] c = 3 -> "B" [] c = 4 -> "x.txt"
      [] OTHER -> ToString(c)

Children(T, d) == { c \in 2..T.n : T.parent[c] = d }

RECURSIVE Ascending(_)
Ascending(S) ==
    IF S = {} THEN <<>>
    ELSE LET m == CHOOSE x \in S : \A y \in S : x <= y
         IN  <<m>> \o Ascending(S \ {m})

Reverse(s) == [i \in 1..Len(s) |-> s[Len(s) + 1 - i]]

\* the entries of directory d in the order os.scandir yields them
Listing(T, d) ==
    IF T.rev[d] THEN Reverse(Ascending(Children(T, d))) ELSE Ascending(Children(T, d))

\* entry.is_dir(): true of a directory and of a link to one
IsDir(T, c) == T.kind[c] \in {"dir", "link"}

\* os.path.islink
IsLink(T, c) == T.kind[c] = "link"

\* os.scandir(top) raises OSError
ScandirFails(T, d) == ~T.listable[d]

NamesOf(s) == [i \in 1..Len(s) |-> EntryName(s[i])]

\* os.path.join(top, name)
Join(p, top, name) ==
    IF top # <<>> /\ top[Len(top)] \in Separators(p)
    THEN Append(top, name)
    ELSE top \o <<Sep(p), name>>

----------------------------------------------------------------------------
(* os.walk(path): a generator; nothing is listed until it is advanced *)

NoEntry == [folder |-> <<>>, subfolder |-> <<>>, file |-> <<>>]

\* what the generator's stack holds: a directory still to list (isTuple FALSE),
\* or, walking bottom-up, a (top, dirs, nondirs) tuple still to yield
PendingDir(top, node) == [top |-> top, node |-> node, isTuple |-> FALSE, entry |-> NoEntry]
PendingTuple(top, node, e) == [top |-> top, node |-> node, isTuple |-> TRUE, entry |-> e]

\* creating the generator runs none of its body: os.walk(path) cannot raise
\* for a str path, whatever the path names
OsWalkRaises(path) == FALSE

RECURSIVE PushDirs(_, _, _)
\* stack.append(join(top, name)) for each entry of walkDirs, last first
PushDirs(stack, top, walkDirs) ==
    IF walkDirs = <<>> THEN stack
    ELSE PushDirs(Append(stack, PendingDir(Join(platform, top, EntryName(walkDirs[Len(walkDirs)])),
                                           walkDirs[Len(walkDirs)])),
                  top, SubSeq(walkDirs, 1, Len(walkDirs) - 1))

RECURSIVE WalkWith(_, _, _, _)
\* advance the generator to its next yield or to its end.
\* yielded: it yielded entry; stack: its stack afterwards; scans: the
\* directories it called os.scandir on meanwhile.
WalkWith(stack, scans, topdown, followlinks) ==
    IF stack = <<>>
    THEN [yielded |-> FALSE, entry |-> NoEntry, stack |-> <<>>, scans |-> scans]
    ELSE
      LET item == stack[Len(stack)]
          rest == SubSeq(stack, 1, Len(stack) - 1)
          d    == item.node
      IN  IF item.isTuple
          THEN [yielded |-> TRUE, entry |-> item.entry, stack |-> rest, scans |-> scans]
          ELSE IF ScandirFails(fsTree, d)
          THEN WalkWith(rest, scans \cup {d}, topdown, followlinks)
          ELSE
            LET listing  == Listing(fsTree, d)
                dirs     == SelectSeq(listing, LAMBDA c : IsDir(fsTree, c))
                nondirs  == SelectSeq(listing, LAMBDA c : ~IsDir(fsTree, c))
                walkDirs == IF followlinks THEN dirs
                            ELSE SelectSeq(dirs, LAMBDA c : ~IsLink(fsTree, c))
                e        == [folder |-> item.top, subfolder |-> NamesOf(dirs),
                             file |-> NamesOf(nondirs)]
            IN  IF topdown
                THEN [yielded |-> TRUE, entry |-> e,
                      stack |-> PushDirs(rest, item.top, walkDirs),
                      scans |-> scans \cup {d}]
                ELSE WalkWith(PushDirs(Append(rest, PendingTuple(item.top, d, e)),
                                       item.top, walkDirs),
                              scans \cup {d}, topdown, followlinks)

\* the walk with topdown=False
WalkAdvanceBottomUp(stack) == WalkWith(stack, {}, FALSE, FALSE)

\* the walk with followlinks=True
WalkAdvanceFollowLinks(stack) == WalkWith(stack, {}, TRUE, TRUE)

\* next(tree) as the script calls it: os.walk(path), topdown=True, onerror=None,
\* followlinks=False
WalkAdvance(stack) == WalkWith(stack, {}, TRUE, FALSE)

----------------------------------------------------------------------------
(* What generate_result_log writes *)

HostName == "host"
UserName == "user"

SepLine == "=========================================================================="

\* lines 185-190: the header; the last line is left without a newline
Header(t) ==
    <<"THE DIRECTORY TRAVERSAL LOG:", "\n", "\n">>
      \o <<"Date: ">> \o DateStr(t) \o NL
      \o <<"Time: ">> \o TimeStr(t) \o NL
      \o <<"Day: ">> \o DayStr(t) \o NL
      \o <<"Host name: ", HostName, "\n">>
      \o <<"Username: ", UserName>>

RECURSIVE Items(_)
\* one "\n------> <name>" per name, in order
Items(names) ==
    IF names = <<>> THEN <<>> ELSE <<"\n", "------> ", Head(names)>> \o Items(Tail(names))

\* an entry written with the two lists exchanged
BlockListsExchanged(e) ==
    <<"\n", "\n", SepLine>>
      \o <<"\n", "FOLDER: ">> \o e.folder
      \o <<"\n", "---> Subfolders:">> \o Items(e.file)
      \o <<"\n", "---> Files:">> \o Items(e.subfolder)

\* lines 193-203: one entry of the walk
Block(e) ==
    <<"\n", "\n", SepLine>>
      \o <<"\n", "FOLDER: ">> \o e.folder
      \o <<"\n", "---> Subfolders:">> \o Items(e.subfolder)
      \o <<"\n", "---> Files:">> \o Items(e.file)

----------------------------------------------------------------------------
(* The script, step by step *)

Instructions ==
    <<"Instructions:",
      "---> This is a directory traversal log generator.",
      "---> Input format for path is exactly as usual",
      "--->only difference is that there are 2 backslashes in place of one.",
      "---> The result file will be generated at the same location from where you are running this script.">>

\* what the user may type at "Enter Path: "
RootPaths(p) == IF p = "nt" THEN { <<"C:", "\\", "root">> } ELSE { <<"/", "root">> }

\* what the user may type at "Enter your email id: "
Receivers == {"user@example.com", "not-an-address"}

\* how yag.send may end for a receiver
Outcomes(to) ==
    IF to = "not-an-address" THEN {"YagAddressError"}
    ELSE {"sent", "YagConnectionClosed", "SMTPException"}

NoMail == [to |-> "", attachment |-> NoPath, outcome |-> "none"]

\* info()
Info ==
    /\ pc = "info"
    /\ out' = out \o Instructions
    /\ pc' = "setup"
    /\ clock' = Tick(clock)
    /\ UNCHANGED <<platform, cwd, fsTree, tree, watch, f, fOpen, files, scanned, mail, trashArg, yields>>

\* setup(): the generator is created and the time is read; the except branch
\* runs only if creating the generator raises
Setup ==
    /\ pc = "setup"
    /\ \E path \in RootPaths(platform) :
         IF OsWalkRaises(path)
         THEN /\ out' = Append(out, "ERROR OCCURRED")
              /\ pc' = "exited"
              /\ UNCHANGED <<tree, watch>>
         ELSE /\ tree' = <<PendingDir(path, 1)>>
              /\ watch' = clock
              /\ pc' = "open"
              /\ out' = out
    /\ clock' = Tick(clock)
    /\ UNCHANGED <<platform, cwd, fsTree, f, fOpen, files, scanned, mail, trashArg, yields>>

\* open('directory_traversal_log.txt', 'w+'): created or truncated in the
\* working directory
OpenLog ==
    /\ pc = "open"
    /\ files' = files \cup { ResolveRelative(platform, cwd, LogName) }
    /\ f' = <<>>
    /\ fOpen' = TRUE
    /\ pc' = "header"
    /\ clock' = Tick(clock)
    /\ UNCHANGED <<platform, cwd, fsTree, tree, watch, scanned, out, mail, trashArg, yields>>

\* lines 185-190
WriteHeader ==
    /\ pc = "header"
    /\ f' = f \o Header(watch)
    /\ pc' = "walk"
    /\ clock' = Tick(clock)
    /\ UNCHANGED <<platform, cwd, fsTree, tree, watch, fOpen, files, scanned, out, mail, trashArg, yields>>

\* one turn of the loop of line 192: the generator yields and the entry is written
WalkStep ==
    /\ pc = "walk"
    /\ LET r == WalkAdvance(tree)
       IN  /\ r.yielded
           /\ f' = f \o Block(r.entry)
           /\ tree' = r.stack
           /\ scanned' = scanned \cup r.scans
           /\ yields' = Append(yields, r.entry)
    /\ clock' = Tick(clock)
    /\ UNCHANGED <<platform, cwd, fsTree, pc, watch, fOpen, files, out, mail, trashArg>>

\* the loop ends without the file being closed
CloseLogLeavesOpen ==
    /\ pc = "walk"
    /\ LET r == WalkAdvance(tree)
       IN  /\ ~r.yielded
           /\ tree' = r.stack
           /\ scanned' = scanned \cup r.scans
    /\ out' = Append(out, "All done :)")
    /\ pc' = "mail"
    /\ clock' = Tick(clock)
    /\ UNCHANGED <<platform, cwd, fsTree, watch, f, fOpen, files, mail, trashArg, yields>>

\* the generator is exhausted: the with block closes the file, line 205 prints
CloseLog ==
    /\ pc = "walk"
    /\ LET r == WalkAdvance(tree)
       IN  /\ ~r.yielded
           /\ tree' = r.stack
           /\ scanned' = scanned \cup r.scans
    /\ fOpen' = FALSE
    /\ out' = Append(out, "All done :)")
    /\ pc' = "mail"
    /\ clock' = Tick(clock)
    /\ UNCHANGED <<platform, cwd, fsTree, watch, f, files, mail, trashArg, yields>>

\* line 228 and send_email up to yag.send: the receiver is read, the
\* attachment path is built and the session is opened
StartSend ==
    /\ pc = "mail"
    /\ \E to \in Receivers :
         mail' = [to |-> to, attachment |-> Resolve(platform, ArtifactPath(cwd)),
                  outcome |-> "pending"]
    /\ pc' = "sending"
    /\ clock' = Tick(clock)
    /\ UNCHANGED <<platform, cwd, fsTree, tree, watch, f, fOpen, files, scanned, out, trashArg, yields>>

\* yag.send returns or raises; lines 229-231 print either way
FinishSend ==
    /\ pc = "sending"
    /\ \E o \in Outcomes(mail.to) :
         /\ mail' = [mail EXCEPT !.outcome = o]
         /\ out' = Append(out, IF o = "sent" THEN "Email sent successfully" ELSE o)
    /\ pc' = "trash"
    /\ clock' = Tick(clock)
    /\ UNCHANGED <<platform, cwd, fsTree, tree, watch, f, fOpen, files, scanned, trashArg, yields>>

\* line 232: send2trash moves the file its argument names, and raises when
\* there is no such file
Trash ==
    /\ pc = "trash"
    /\ LET target == Resolve(platform, ArtifactPath(cwd))
       IN  /\ trashArg' = target
           /\ IF target \in files
              THEN files' = files \ {target} /\ pc' = "done"
              ELSE files' = files /\ pc' = "crashed"
    /\ clock' = Tick(clock)
    /\ UNCHANGED <<platform, cwd, fsTree, tree, watch, f, fOpen, scanned, out, mail, yields>>

Next ==
    \/ Info
    \/ Setup
    \/ OpenLog
    \/ WriteHeader
    \/ WalkStep
    \/ CloseLog
    \/ StartSend
    \/ FinishSend
    \/ Trash

----------------------------------------------------------------------------
(* Initial states *)

Platforms == {"nt", "posix"}

\* working directories: a drive or file-system root, and a directory below it
Cwds ==
    [p \in Platforms |->
        IF p = "nt" THEN { <<"C:", "\\">>, <<"C:", "\\", "work">> }
        ELSE { <<"/">>, <<"/", "work">> }]

Instant(y, mo, d, h, mi, s, us) ==
    [year |-> y, month |-> mo, day |-> d, hour |-> h, minute |-> mi,
     second |-> s, microsecond |-> us]

\* the script's creation date, mid-morning
FlowClock == Instant(2025, 4, 21, 10, 30, 15, 123456)

\* instants around the carries of every field, leap days included
Clocks ==
    { t \in [year : {999, 2024, 2025}, month : {1, 2, 12}, day : {1, 9, 28, 29, 31},
             hour : {0, 9, 23}, minute : {0, 59}, second : {5, 59},
             microsecond : {0, 7, 123456, 999998, 999999}] :
        t.day <= DaysInMonth(t.year, t.month) }

\* one working directory per platform
WorkDir ==
    [p \in Platforms |-> IF p = "nt" THEN { <<"C:", "\\", "work">> } ELSE { <<"/", "work">> }]

InitWith(ps, wds, trees, clocks) ==
    /\ platform \in ps
    /\ cwd \in wds[platform]
    /\ fsTree \in trees
    /\ clock \in clocks
    /\ pc = "info"
    /\ tree = <<>>
    /\ watch = NoWatch
    /\ f = <<>>
    /\ fOpen = FALSE
    /\ files = {}
    /\ scanned = {}
    /\ out = <<>>
    /\ mail = NoMail
    /\ trashArg = NoPath
    /\ yields = <<>>

\* every platform and working directory, small trees
Init == InitWith(Platforms, Cwds, Trees(MaxFlowNodes), {FlowClock})

\* every tree up to MaxNodes entries
InitWalk == InitWith(Platforms, WorkDir, Trees(MaxNodes), {FlowClock})

\* every instant of Clocks
InitTime == InitWith({"nt"}, WorkDir, Trees(1), Clocks)

Spec == Init /\ [][Next]_vars

SpecWalk == InitWalk /\ [][Next]_vars

SpecTime == InitTime /\ [][Next]_vars

----------------------------------------------------------------------------
(* Properties of the flow: setup, write, send, trash *)

\* the file open('directory_traversal_log.txt') creates
LogFile == ResolveRelative(platform, cwd, LogName)

RootInaccessible == ScandirFails(fsTree, 1)

Ended == pc \in {"done", "crashed", "exited"}

SendAttempted == mail.outcome \notin {"none", "pending"}

SendFailed == mail.outcome \in {"YagAddressError", "YagConnectionClosed", "SMTPException"}

\* C1: given an inaccessible root path the script prints a diagnostic and exits
\* at once: the log file is never created, and neither the mail step nor the
\* trash step is reached.
C1_InaccessibleRootExits ==
    RootInaccessible =>
        /\ LogFile \notin files
        /\ pc \in {"info", "setup", "exited"}
        /\ mail = NoMail
        /\ trashArg = NoPath
        /\ (pc = "exited" => out # <<>> /\ out[Len(out)] = "ERROR OCCURRED")

\* C2: a failed send is printed and not re-raised, and the run goes on to the
\* trash step, which removes the log artifact from its working location; every
\* run that reaches the mail step reaches the trash step, sent or not.
C2_FailedSendStillTrashes ==
    /\ (SendAttempted /\ pc # "trash" => trashArg # NoPath /\ LogFile \notin files)
    /\ (SendFailed => out[Len(out)] = mail.outcome)
    /\ (pc = "sending" => ENABLED FinishSend)
    /\ (pc = "trash" => ENABLED Trash)

\* C3: the steps are strictly ordered: the log is fully written and closed
\* before the send starts, and the trash move does not start before the send
\* attempt has finished.
C3_StrictOrder ==
    /\ (mail # NoMail =>
          /\ ~fOpen
          /\ tree = <<>>
          /\ LogFile \in files \/ trashArg # NoPath
          /\ pc \in {"sending", "trash", "done", "crashed"})
    /\ (pc = "sending" => mail.outcome = "pending" /\ trashArg = NoPath)
    /\ (trashArg # NoPath => SendAttempted /\ pc \in {"done", "crashed"})
    /\ (fOpen => pc \in {"header", "walk"} /\ mail = NoMail /\ trashArg = NoPath)

\* C3 witness: the trash move has run after a send that failed
C3_Witness ==
    /\ pc = "done"
    /\ mail.outcome = "YagConnectionClosed"
    /\ trashArg = LogFile
    /\ Len(yields) >= 1

\* C5: the file the mailer attaches and the file moved to the trash are the
\* file the log writer wrote, in every working directory and under every
\* path-separator convention, so after a completed run the artifact is gone
\* from its working location.
C5_SameArtifact ==
    /\ (mail # NoMail => mail.attachment = LogFile)
    /\ (trashArg # NoPath => trashArg = LogFile)
    /\ (Ended => LogFile \notin files)

\* C6: with a valid root path the run passes through walk, write, send attempt
\* and trash and ends without an uncaught exception, whatever the tree and the
\* outcome of the send.
C6_ValidRootCompletes ==
    ~RootInaccessible =>
        /\ pc # "crashed"
        /\ (Ended => pc = "done" /\ SendAttempted /\ trashArg # NoPath /\ ~fOpen)
        /\ (~Ended => ENABLED Next)

----------------------------------------------------------------------------
(* Reading the log back *)

RECURSIVE SplitLines(_, _)
\* the lines of text s; cur is the line being read
SplitLines(s, cur) ==
    IF s = <<>> THEN <<cur>>
    ELSE IF Head(s) = "\n" THEN <<cur>> \o SplitLines(Tail(s), <<>>)
         ELSE SplitLines(Tail(s), Append(cur, Head(s)))

Lines(s) == SplitLines(s, <<>>)

\* the lines after the seven header lines
BodyLines(s) == LET ls == Lines(s) IN SubSeq(ls, 8, Len(ls))

Malformed == [folder |-> <<"?">>, subfolder |-> <<"?">>, file |-> <<"?">>]

IsItem(l) == Len(l) = 2 /\ l[1] = "------> "

RECURSIVE CountItems(_)
\* how many "------> <name>" lines ls starts with
CountItems(ls) ==
    IF ls # <<>> /\ IsItem(Head(ls)) THEN 1 + CountItems(Tail(ls)) ELSE 0

RECURSIVE ParseBlocks(_)
\* the entries the body lines ls spell out: for each, a blank line, the
\* separator, FOLDER, Subfolders and its items, Files and its items, and
\* nothing else; Malformed where the lines are anything else
ParseBlocks(ls) ==
    IF ls = <<>> THEN <<>>
    ELSE IF \/ Len(ls) < 5
            \/ ls[1] # <<>>
            \/ ls[2] # <<SepLine>>
            \/ Len(ls[3]) < 2
            \/ ls[3][1] # "FOLDER: "
            \/ ls[4] # <<"---> Subfolders:">>
    THEN <<Malformed>>
    ELSE LET k     == CountItems(SubSeq(ls, 5, Len(ls)))
             after == SubSeq(ls, 5 + k, Len(ls))
         IN  IF after = <<>> \/ after[1] # <<"---> Files:">>
             THEN <<Malformed>>
             ELSE LET m == CountItems(Tail(after))
                  IN  << [folder    |-> Tail(ls[3]),
                          subfolder |-> [i \in 1..k |-> ls[4 + i][2]],
                          file      |-> [i \in 1..m |-> after[1 + i][2]]] >>
                        \o ParseBlocks(SubSeq(after, 2 + m, Len(after)))

\* the entries the log file spells out
LogBlocks == ParseBlocks(BodyLines(f))

Range(s) == { s[i] : i \in 1..Len(s) }

----------------------------------------------------------------------------
(* Properties of the walk and of the log body *)

\* the path typed at the prompt
TypedRoot == CHOOSE p \in RootPaths(platform) : TRUE

RECURSIVE PathOf(_)
\* the path of entry c as the operating system spells it under the typed root
PathOf(c) ==
    IF c = 1 THEN TypedRoot ELSE PathOf(fsTree.parent[c]) \o <<Sep(platform), EntryName(c)>>

RECURSIVE Ancestors(_)
\* the directories entry c lies in, up to the root
Ancestors(c) ==
    IF c = 1 THEN {} ELSE {fsTree.parent[c]} \cup Ancestors(fsTree.parent[c])

WalkOver == pc \in {"mail", "sending", "trash", "done", "crashed"}

\* directories and links to directories that every directory on the way to
\* them can be listed
ReachableDirs ==
    { c \in 1..fsTree.n :
        IsDir(fsTree, c) /\ \A a \in Ancestors(c) : fsTree.listable[a] }

\* real directories that can be listed, reached through such directories only
WalkableDirs ==
    { c \in ReachableDirs : fsTree.kind[c] = "dir" /\ fsTree.listable[c] }

SubdirNames(d) == { EntryName(c) : c \in { x \in Children(fsTree, d) : IsDir(fsTree, x) } }

FileNames(d) == { EntryName(c) : c \in { x \in Children(fsTree, d) : ~IsDir(fsTree, x) } }

\* the blocks of the log list, each once, exactly the directories of D, each
\* with its directory entries under Subfolders and its other entries under Files
BlocksCover(D) ==
    LET blocks == LogBlocks
    IN  /\ Len(blocks) = Cardinality(D)
        /\ { blocks[i].folder : i \in 1..Len(blocks) } = { PathOf(c) : c \in D }
        /\ \A i \in 1..Len(blocks) : \A c \in D :
             blocks[i].folder = PathOf(c) =>
                /\ Range(blocks[i].subfolder) = SubdirNames(c)
                /\ Len(blocks[i].subfolder) = Cardinality(SubdirNames(c))
                /\ Range(blocks[i].file) = FileNames(c)
                /\ Len(blocks[i].file) = Cardinality(FileNames(c))

\* C4 as stated: for a valid root the FOLDER lines are exactly the directories
\* reachable from it, those that cannot be listed and those reached through a
\* link included, each once, each with exactly its contents.
C4_FoldersCoverReachable ==
    WalkOver /\ ~RootInaccessible => BlocksCover(ReachableDirs)

\* C4 amended: the FOLDER lines are exactly, each once, the real directories
\* that can be listed and are reached from the root through such directories
\* only; a directory that cannot be listed and a link to a directory are named
\* under Subfolders of their parent and get no FOLDER line; under each FOLDER
\* line Subfolders are the directory's entries that are directories or links to
\* directories and Files are its other entries.
C4_FoldersCoverWalkable ==
    WalkOver => BlocksCover(WalkableDirs)

\* C4 witness: a finished walk of a tree with a link, an unlistable directory
\* and a listed subdirectory
C4_Witness ==
    /\ pc = "mail"
    /\ Len(yields) >= 2
    /\ \E c \in 2..fsTree.n : fsTree.kind[c] = "link" /\ fsTree.parent[c] = 1
    /\ \E c \in 2..fsTree.n : fsTree.kind[c] = "dir" /\ ~fsTree.listable[c] /\ fsTree.parent[c] = 1

\* the tree of the example: root holds folders A and B, A holds x.txt
ExampleTree ==
    /\ fsTree.n = 4
    /\ fsTree.kind = <<"dir", "dir", "dir", "file">>
    /\ fsTree.parent = <<0, 1, 1, 2>>
    /\ \A c \in 1..4 : fsTree.listable[c]

\* C8: the log body is the in-order rendering of the traversal sequence: for
\* each yielded entry, consecutively, the separator line, FOLDER, Subfolders
\* with one line per subfolder name, Files with one line per file name and
\* nothing else; in the example the root block lists subfolders A and B and
\* the A block lists file x.txt and no subfolder.
C8_BodyRendersYields ==
    LET blocks == LogBlocks
    IN  /\ blocks = yields
        /\ (ExampleTree /\ WalkOver =>
              /\ \E i \in 1..Len(blocks) :
                   /\ blocks[i].folder = TypedRoot
                   /\ Range(blocks[i].subfolder) = {"A", "B"}
                   /\ Len(blocks[i].subfolder) = 2
                   /\ blocks[i].file = <<>>
              /\ \E i \in 1..Len(blocks) :
                   /\ blocks[i].folder = TypedRoot \o <<Sep(platform), "A">>
                   /\ blocks[i].subfolder = <<>>
                   /\ blocks[i].file = <<"x.txt">>)

\* C8 witness: the example tree, walked and written
C8_Witness == ExampleTree /\ pc = "mail" /\ Len(yields) = 3

IsProperPrefix(p, q) == Len(p) < Len(q) /\ SubSeq(q, 1, Len(p)) = p

\* the path of the directory that holds the directory at path q
ParentPath(q) == SubSeq(q, 1, Len(q) - 2)

\* C9: the walk is top-down: the root's block is the first block and the block
\* of a directory comes before the block of each of its descendants, whatever
\* the tree and the order of the listings.
C9_TopDown ==
    LET blocks == LogBlocks
    IN  /\ (blocks # <<>> => blocks[1].folder = TypedRoot)
        /\ \A i \in 1..Len(blocks) : \A j \in 1..Len(blocks) :
             IsProperPrefix(blocks[i].folder, blocks[j].folder) => i < j
        /\ \A j \in 2..Len(blocks) :
             \E i \in 1..(j - 1) : blocks[i].folder = ParentPath(blocks[j].folder)

\* C9 witness: a finished walk three levels deep, the root listed in falling order
C9_Witness ==
    /\ pc = "mail"
    /\ fsTree.rev[1]
    /\ \E i \in 1..Len(yields) : Len(yields[i].folder) = Len(TypedRoot) + 4

----------------------------------------------------------------------------
(* Properties of the header *)

HeaderWritten == pc \notin {"info", "setup", "open", "header"}

Digits == Range(DigitChars)

DigitVal(ch) == CHOOSE d \in 0..9 : DigitChars[d + 1] = ch

RECURSIVE NumOf(_)
\* the number a string of digits spells
NumOf(s) == IF s = <<>> THEN 0 ELSE NumOf(SubSeq(s, 1, Len(s) - 1)) * 10 + DigitVal(s[Len(s)])

AllDigits(s) == \A i \in 1..Len(s) : s[i] \in Digits

\* s is YYYY-MM-DD and spells the date of t
SpellsDate(s, t) ==
    /\ Len(s) = 10
    /\ s[5] = "-" /\ s[8] = "-"
    /\ AllDigits(SubSeq(s, 1, 4)) /\ AllDigits(SubSeq(s, 6, 7)) /\ AllDigits(SubSeq(s, 9, 10))
    /\ NumOf(SubSeq(s, 1, 4)) = t.year
    /\ NumOf(SubSeq(s, 6, 7)) = t.month
    /\ NumOf(SubSeq(s, 9, 10)) = t.day

\* s is HH:MM:SS and spells the second of t
SpellsSecond(s, t) ==
    /\ Len(s) = 8
    /\ s[3] = ":" /\ s[6] = ":"
    /\ AllDigits(SubSeq(s, 1, 2)) /\ AllDigits(SubSeq(s, 4, 5)) /\ AllDigits(SubSeq(s, 7, 8))
    /\ NumOf(SubSeq(s, 1, 2)) = t.hour
    /\ NumOf(SubSeq(s, 4, 5)) = t.minute
    /\ NumOf(SubSeq(s, 7, 8)) = t.second

\* s is HH:MM:SS.ffffff, six fractional digits, and spells the time of t
SpellsMicrosecond(s, t) ==
    /\ Len(s) = 15
    /\ SpellsSecond(SubSeq(s, 1, 8), t)
    /\ s[9] = "."
    /\ AllDigits(SubSeq(s, 10, 15))
    /\ NumOf(SubSeq(s, 10, 15)) = t.microsecond

\* the weekday of a date by the month-offset rule, Sunday first
MonthOffsets == <<0, 3, 2, 5, 0, 3, 5, 1, 4, 6, 2, 4>>

SundayFirst == <<"Sunday", "Monday", "Tuesday", "Wednesday", "Thursday", "Friday", "Saturday">>

WeekdayName(t) ==
    LET y == IF t.month < 3 THEN t.year - 1 ELSE t.year
    IN  SundayFirst[((y + (y \div 4) - (y \div 100) + (y \div 400)
                        + MonthOffsets[t.month] + t.day) % 7) + 1]

\* the header's Date and Day lines spell the date and weekday of watch, and
\* its fourth line is the Time line
DateAndDay(ls) ==
    /\ Len(ls) >= 7
    /\ ls[3] # <<>> /\ ls[3][1] = "Date: " /\ SpellsDate(Tail(ls[3]), watch)
    /\ ls[5] = <<"Day: ", WeekdayName(watch)>>
    /\ ls[4] # <<>> /\ ls[4][1] = "Time: "

\* watch is set by setup, and nothing is listed before the header is written
CapturedBeforeListing ==
    /\ (pc \in {"open", "header"} => watch # NoWatch /\ scanned = {})
    /\ (pc \in {"info", "setup"} => watch = NoWatch /\ scanned = {})

\* C10 as stated: for every capture instant the Time line is HH:MM:SS.ffffff
\* with exactly six fractional digits, also when the microsecond is 0; the
\* Date line is YYYY-MM-DD and the Day line the weekday name of the same
\* instant, all from the one timestamp captured before any directory is listed.
C10_TimeAlwaysSixDigits ==
    /\ CapturedBeforeListing
    /\ (HeaderWritten =>
          LET ls == Lines(f)
          IN  /\ DateAndDay(ls)
              /\ SpellsMicrosecond(Tail(ls[4]), watch))

\* C10 amended: the Time line is HH:MM:SS.ffffff with exactly six fractional
\* digits when the microsecond of the capture instant is not 0, and HH:MM:SS
\* with no fraction when it is 0; the Date line is YYYY-MM-DD and the Day line
\* the weekday name of the same instant, all from the one timestamp captured
\* in setup before any directory is listed.
C10_TimeSixDigitsUnlessZero ==
    /\ CapturedBeforeListing
    /\ (HeaderWritten =>
          LET ls == Lines(f)
          IN  /\ DateAndDay(ls)
              /\ IF watch.microsecond # 0
                 THEN SpellsMicrosecond(Tail(ls[4]), watch)
                 ELSE SpellsSecond(Tail(ls[4]), watch))

\* C10 witness: a header written from an instant whose microsecond is 0, read
\* just after midnight of a leap day
C10_Witness ==
    /\ HeaderWritten
    /\ watch.microsecond = 0
    /\ watch.hour = 0
    /\ watch.month = 2 /\ watch.day = 29
    /\ Lines(f)[4] = <<"Time: ", "0", "0", ":", "0", "0", ":", "0", "0">>

====
